---- MODULE Spec2Model ----
(***************************************************************************)
(* Model of qrl/core/p2pfactory.py: P2PFactory, the gossip broadcaster,    *)
(* the full-message requester (RFM) and the consensus-record selector      *)
(* (select_best_bkmr).                                                     *)
(*                                                                         *)
(* Everything runs on the single reactor thread, so every handler is one   *)
(* atomic action.  reactor.callLater is modelled by queues of pending      *)
(* delayed calls.  All RFM retries are armed with the same delay           *)
(* (config.dev.message_receipt_timeout), so the reactor fires them in the  *)
(* order they were armed: the pending RFM calls form a FIFO queue.         *)
(***************************************************************************)
EXTENDS Integers, Sequences, FiniteSets, TLC

\* ---------------------------------------------------------------- bounds
NumPeers == 3
MaxCalls == 2
MaxSelCalls == 1
MaxQueue == 2
MaxScore == 2
MaxBlock == 1
MaxAddrs == 2

Hashes == {1, 2}
Peers == 1..NumPeers
Scores == 1..MaxScore
Blocks == 0..MaxBlock

\* The delay select_best_bkmr re-arms itself with
ReselectDelay == 5
\* The port connect_peers dials
PeerPort == 9000

VARIABLES
    hash_msg,            \* master_mr.hash_msg: the hashes that are fully known
    requested_hash,      \* master_mr.requested_hash: hash -> MessageRequest
    calls,               \* the reactor's pending RFM delayed calls, oldest first
    peer_connections,    \* the list of connected peer sessions
    bkmr_blocknumber,    \* block number for which bkmr is being tracked
    bkmr_priorityq,      \* queue.PriorityQueue of <<score, hash>>, smallest first
    bkmr_calls,          \* number of pending select_best_bkmr delayed calls
    last_ping,           \* time of the last ping, "None" before the first
    last                 \* what the last handler did (observation only)

vars == <<hash_msg, requested_hash, calls, peer_connections, bkmr_blocknumber,
          bkmr_priorityq, bkmr_calls, last_ping, last>>

\* ---------------------------------------------------------------- helpers
Range(s) == {s[i] : i \in 1..Len(s)}

\* No delayed call (MessageRequest.callLater before the first request)
NoCall == 0

\* What a handler that sends nothing, arms nothing and raises nothing leaves
\* in `last`.
Quiet(op, h) ==
    [op |-> op, hash |-> h, sent |-> <<>>, armed |-> FALSE, err |-> "none",
     rfm |-> 0, resched |-> FALSE, removed |-> 0, oldscore |-> 0,
     type |-> "", known |-> FALSE, delay |-> 0, caught |-> "none",
     deleted |-> FALSE, above |-> FALSE, bad |-> {}, addrs |-> <<>>,
     attempts |-> <<>>]

\* A fresh identity for a delayed call: the smallest one that is neither
\* pending nor still referenced by a MessageRequest.
UsedIds(rh, cl) ==
    {cl[i].id : i \in 1..Len(cl)} \cup {rh[h].callLater : h \in DOMAIN rh}

FreshId(rh, cl) ==
    CHOOSE i \in 1..(MaxCalls + Cardinality(Hashes) + 2) :
        /\ i \notin UsedIds(rh, cl)
        /\ \A j \in 1..(i - 1) : j \in UsedIds(rh, cl)

\* DelRequest emptying the whole table
DelRequestAll(rh, h) == <<>>

\* del self.master_mr.requested_hash[msg_hash]
DelRequest(rh, h) == [x \in DOMAIN rh \ {h} |-> rh[x]]

\* ---------------------------------------------------------------- RFM
\* NextPeer with the scan run from the newest announce backwards
NextPeerLast(peers_list, already) ==
    LET un == {i \in 1..Len(peers_list) : peers_list[i] \notin Range(already)}
    IN  IF un = {} THEN 0 ELSE CHOOSE i \in un : \A j \in un : i >= j

\* The loop of RFM: the index of the first peer of peers_list that is not in
\* already_requested_peers, 0 when the loop runs to its end.
NextPeer(peers_list, already) ==
    LET un == {i \in 1..Len(peers_list) : peers_list[i] \notin Range(already)}
    IN  IF un = {} THEN 0 ELSE CHOOSE i \in un : \A j \in un : i <= j

\* AskPeer with the peer put at the front of already_requested_peers
AskPeerFront(rh, cl, h, i, writeFails) ==
    LET mr   == rh[h]
        peer == mr.peers_connection_list[i]
        req1 == [mr EXCEPT !.already_requested_peers = <<peer>> \o @]
        id   == FreshId(rh, cl)
    IN  IF writeFails
        THEN [rh |-> [rh EXCEPT ![h] = req1], calls |-> cl, sent |-> <<>>,
              armed |-> FALSE, err |-> "WriteError", deleted |-> FALSE]
        ELSE [rh |-> [rh EXCEPT ![h] = [req1 EXCEPT !.callLater = id]],
              calls |-> Append(cl, [id |-> id, hash |-> h]),
              sent |-> <<peer>>, armed |-> TRUE, err |-> "none",
              deleted |-> FALSE]

\* RFM when the loop finds peer number i un-asked: it is marked asked, the
\* request is written to it and the retry is armed.  A transport whose write
\* raises leaves the peer marked and arms nothing.
AskPeer(rh, cl, h, i, writeFails) ==
    LET mr   == rh[h]
        peer == mr.peers_connection_list[i]
        req1 == [mr EXCEPT !.already_requested_peers = Append(@, peer)]
        id   == FreshId(rh, cl)
    IN  IF writeFails
        THEN [rh |-> [rh EXCEPT ![h] = req1], calls |-> cl, sent |-> <<>>,
              armed |-> FALSE, err |-> "WriteError", deleted |-> FALSE]
        ELSE [rh |-> [rh EXCEPT ![h] = [req1 EXCEPT !.callLater = id]],
              calls |-> Append(cl, [id |-> id, hash |-> h]),
              sent |-> <<peer>>, armed |-> TRUE, err |-> "none",
              deleted |-> FALSE]

\* GiveUp without the final del
GiveUpKeep(rh, cl, h) ==
    [rh |-> rh, calls |-> cl, sent |-> <<>>, armed |-> FALSE, err |-> "none",
     deleted |-> FALSE]

\* RFM when the loop ends without an un-asked peer: the hash is deleted.
GiveUp(rh, cl, h) ==
    [rh |-> IF h \in DOMAIN rh THEN DelRequest(rh, h) ELSE rh,
     calls |-> cl, sent |-> <<>>, armed |-> FALSE, err |-> "none",
     deleted |-> h \in DOMAIN rh]

\* AlreadyKnown returning without the cleanup
AlreadyKnownKeep(rh, cl, h) ==
    [rh |-> rh, calls |-> cl, sent |-> <<>>, armed |-> FALSE, err |-> "none",
     deleted |-> FALSE]

\* RFM for a hash that is in hash_msg: the leftover request is deleted.
AlreadyKnown(rh, cl, h) ==
    [rh |-> IF h \in DOMAIN rh THEN DelRequest(rh, h) ELSE rh,
     calls |-> cl, sent |-> <<>>, armed |-> FALSE, err |-> "none",
     deleted |-> h \in DOMAIN rh]

\* NoRequest with the missing request taken for an exhausted one
NoRequestSilent(rh, cl, h) ==
    [rh |-> rh, calls |-> cl, sent |-> <<>>, armed |-> FALSE, err |-> "none",
     deleted |-> FALSE]

\* RFM for a hash that is not in hash_msg and has no request:
\* requested_hash[msg_hash] raises KeyError out of RFM.
NoRequest(rh, cl, h) ==
    [rh |-> rh, calls |-> cl, sent |-> <<>>, armed |-> FALSE,
     err |-> "KeyError", deleted |-> FALSE]

\* RFM(data), data.hash = h, from the registry hm/rh and the pending calls cl.
RFM(hm, rh, cl, h, writeFails) ==
    IF h \in hm THEN AlreadyKnown(rh, cl, h)
    ELSE IF h \notin DOMAIN rh THEN NoRequest(rh, cl, h)
    ELSE LET i == NextPeer(rh[h].peers_connection_list,
                           rh[h].already_requested_peers)
         IN  IF i = 0 THEN GiveUp(rh, cl, h)
             ELSE AskPeer(rh, cl, h, i, writeFails)

\* Bound on the reactor's queue of pending RFM calls
RoomFor(r) == Len(r.calls) <= MaxCalls

\* RFM called directly (by the protocol layer on an announce, or by any
\* other caller of the factory).
RFMDirect(h, writeFails) ==
    LET r == RFM(hash_msg, requested_hash, calls, h, writeFails)
    IN  /\ RoomFor(r)
        /\ requested_hash' = r.rh
        /\ calls' = r.calls
        /\ last' = [Quiet("RFM", h) EXCEPT !.sent = r.sent, !.armed = r.armed,
                                           !.err = r.err, !.deleted = r.deleted]
        /\ UNCHANGED <<last_ping, hash_msg, peer_connections, bkmr_blocknumber,
                       bkmr_priorityq, bkmr_calls>>

\* The oldest pending retry fires: the reactor calls RFM(data) again.
RFMTimeout(writeFails) ==
    /\ calls /= <<>>
    /\ LET h == Head(calls).hash
           r == RFM(hash_msg, requested_hash, Tail(calls), h, writeFails)
       IN  /\ requested_hash' = r.rh
           /\ calls' = r.calls
           /\ last' = [Quiet("RFMTimeout", h) EXCEPT !.sent = r.sent,
                          !.armed = r.armed, !.err = r.err,
                          !.deleted = r.deleted]
    /\ UNCHANGED <<last_ping, hash_msg, peer_connections, bkmr_blocknumber,
                   bkmr_priorityq, bkmr_calls>>

\* ---------------------------------------------------------------- selector
\* bkmr_priorityq.put((score, hash)): tuples compare by score, then by hash
Before(a, b) == a[1] < b[1] \/ (a[1] = b[1] /\ a[2] <= b[2])

\* Put into a first-in first-out queue
PutLast(q, e) == Append(q, e)

Put(q, e) ==
    LET k == Cardinality({i \in 1..Len(q) : Before(q[i], e)})
    IN  SubSeq(q, 1, k) \o <<e>> \o SubSeq(q, k + 1, Len(q))

\* if blocknumber <= self.buffered_chain.height
Fetches(blocknumber, height) == blocknumber <= height

\* Worse with the comparison turned round
WorseFlipped(dscore, oldscore) == dscore < oldscore

\* if dscore > oldscore
Worse(dscore, oldscore) == dscore > oldscore

\* Caught with the next step armed from the except clause
CaughtRearm(q, n, rh, cl, what) ==
    [q |-> q, rh |-> rh, calls |-> cl, resched |-> TRUE,
     last |-> [Quiet("select", 0) EXCEPT !.caught = what, !.removed = n,
                                         !.resched = TRUE]]

\* The except clauses of select_best_bkmr: queue.Empty returns, any other
\* exception is logged; neither re-arms the processor.  q is the queue left
\* behind and n the number of candidates the step took from it.
Caught(q, n, rh, cl, what) ==
    [q |-> q, rh |-> rh, calls |-> cl, resched |-> FALSE,
     last |-> [Quiet("select", 0) EXCEPT !.caught = what, !.removed = n]]

\* del self.bkmr_priorityq; self.bkmr_priorityq = queue.PriorityQueue(); return
Prune(q, rh, cl, oldscore) ==
    [q |-> <<>>, rh |-> rh, calls |-> cl, resched |-> FALSE,
     last |-> [Quiet("select", 0) EXCEPT !.removed = Len(q),
                                         !.oldscore = oldscore]]

\* Promote with the popped candidate left in the queue
PromoteKeep(q, hm, rh, cl, oldscore, writeFails) ==
    LET dhash == Head(q)[2]
        r == RFM(hm, rh, cl, dhash, writeFails)
        seen == [Quiet("select", 0) EXCEPT !.removed = 0,
                    !.oldscore = oldscore, !.rfm = dhash, !.type = "BK",
                    !.sent = r.sent, !.armed = r.armed, !.deleted = r.deleted]
    IN  IF r.err /= "none"
        THEN [q |-> q, rh |-> r.rh, calls |-> r.calls, resched |-> FALSE,
              last |-> [seen EXCEPT !.caught = r.err]]
        ELSE [q |-> q, rh |-> r.rh, calls |-> r.calls, resched |-> TRUE,
              last |-> [seen EXCEPT !.resched = TRUE, !.delay = ReselectDelay]]

\* self.RFM(data), then self.bkmr_processor = reactor.callLater(5, ...)
Promote(q, hm, rh, cl, oldscore, writeFails) ==
    LET dhash == Head(q)[2]
        r == RFM(hm, rh, cl, dhash, writeFails)
        seen == [Quiet("select", 0) EXCEPT !.removed = 1,
                    !.oldscore = oldscore, !.rfm = dhash, !.type = "BK",
                    !.sent = r.sent, !.armed = r.armed, !.deleted = r.deleted]
    IN  IF r.err /= "none"
        THEN [q |-> Tail(q), rh |-> r.rh, calls |-> r.calls, resched |-> FALSE,
              last |-> [seen EXCEPT !.caught = r.err]]
        ELSE [q |-> Tail(q), rh |-> r.rh, calls |-> r.calls, resched |-> TRUE,
              last |-> [seen EXCEPT !.resched = TRUE, !.delay = ReselectDelay]]

\* select_best_bkmr().  height is buffered_chain.height and oldscore what
\* buffered_chain.get_block_score(blocknumber) returns (scoreRaises: it
\* raises instead); both are answers of the external chain.  get_nowait
\* takes the head of the queue, the smallest (score, hash).
SelectBestBkmr(q, hm, rh, cl, blocknumber, height, oldscore, scoreRaises, writeFails) ==
    IF q = <<>> THEN Caught(q, 0, rh, cl, "Empty")
    ELSE IF Fetches(blocknumber, height)
         THEN IF scoreRaises
              THEN Caught(Tail(q), 1, rh, cl, "ScoreError")
              ELSE IF Worse(Head(q)[1], oldscore)
              THEN Prune(q, rh, cl, oldscore)
              ELSE Promote(q, hm, rh, cl, oldscore, writeFails)
         ELSE Promote(q, hm, rh, cl, 0, writeFails)

\* What the step saw of the chain's height: read once a candidate was
\* popped, and below the tracked block number.
ReadAbove(q, blocknumber, height) == q /= <<>> /\ blocknumber > height

SelectApply(r, pending, above) ==
    /\ RoomFor(r)
    /\ r.resched => pending < MaxSelCalls
    /\ bkmr_priorityq' = r.q
    /\ requested_hash' = r.rh
    /\ calls' = r.calls
    /\ bkmr_calls' = IF r.resched THEN pending + 1 ELSE pending
    /\ last' = [r.last EXCEPT !.above = above]
    /\ UNCHANGED <<last_ping, hash_msg, peer_connections, bkmr_blocknumber>>

\* What the collaborators answer during one selection step: the chain's
\* height, then either the score of the tracked block or an exception, and
\* whether the transport RFM writes to raises.
SelectInputs ==
    [height : Blocks, oldscore : Scores, scoreRaises : {FALSE},
     writeFails : BOOLEAN]
    \cup [height : Blocks, oldscore : {0}, scoreRaises : {TRUE},
          writeFails : {FALSE}]

\* The pending bkmr_processor call fires.
SelectTimeout(in) ==
    /\ bkmr_calls > 0
    /\ SelectApply(SelectBestBkmr(bkmr_priorityq, hash_msg, requested_hash,
                                  calls, bkmr_blocknumber, in.height,
                                  in.oldscore, in.scoreRaises, in.writeFails),
                   bkmr_calls - 1,
                   ReadAbove(bkmr_priorityq, bkmr_blocknumber, in.height))

\* select_best_bkmr called directly (the protocol layer starts the selector).
SelectDirect(in) ==
    SelectApply(SelectBestBkmr(bkmr_priorityq, hash_msg, requested_hash,
                               calls, bkmr_blocknumber, in.height,
                               in.oldscore, in.scoreRaises, in.writeFails),
                bkmr_calls,
                ReadAbove(bkmr_priorityq, bkmr_blocknumber, in.height))

\* ---------------------------------------------------------------- broadcast
\* IgnorePeers taken from the peers already asked instead of the candidates
IgnorePeersAsked(rh, h) ==
    IF h \in DOMAIN rh THEN Range(rh[h].already_requested_peers) ELSE {}

\* ignore_peers of broadcast
IgnorePeers(rh, h) ==
    IF h \in DOMAIN rh THEN Range(rh[h].peers_connection_list) ELSE {}

\* The peers broadcast's loop writes to, in order
Targets(rh, pc, h) ==
    SelectSeq(pc, LAMBDA p : p \notin IgnorePeers(rh, h))

\* The loop of broadcast: the writes made before the first transport in
\* `bad` raises (the exception leaves the loop).
Broadcast(hm, rh, pc, h, bad) ==
    LET t == Targets(rh, pc, h)
        f == {i \in 1..Len(t) : t[i] \in bad}
        n == IF f = {} THEN Len(t) ELSE (CHOOSE i \in f : \A j \in f : i <= j) - 1
    IN  [sent |-> SubSeq(t, 1, n),
         err |-> IF f = {} THEN "none" ELSE "WriteError",
         known |-> h \in hm]

\* master_mr.register(msg_hash, msg_json, msg_type)
Register(hm, h) == hm \cup {h}

\* RegisterAndBroadcast with the announce written before the registration
BroadcastThenRegister(hm, rh, pc, h, bad) ==
    [hm |-> hm \cup {h}, b |-> Broadcast(hm, rh, pc, h, bad)]

\* register_and_broadcast: register, then broadcast
RegisterAndBroadcast(hm, rh, pc, h, bad) ==
    LET hm1 == Register(hm, h)
    IN  [hm |-> hm1, b |-> Broadcast(hm1, rh, pc, h, bad)]

broadcast(h, bad) ==
    LET b == Broadcast(hash_msg, requested_hash, peer_connections, h, bad)
    IN  /\ last' = [Quiet("broadcast", h) EXCEPT !.sent = b.sent,
                       !.err = b.err, !.known = b.known, !.bad = bad]
        /\ UNCHANGED <<last_ping, hash_msg, requested_hash, calls, peer_connections,
                       bkmr_blocknumber, bkmr_priorityq, bkmr_calls>>

register_and_broadcast(h, bad) ==
    LET r == RegisterAndBroadcast(hash_msg, requested_hash, peer_connections,
                                  h, bad)
    IN  /\ hash_msg' = r.hm
        /\ last' = [Quiet("register_and_broadcast", h) EXCEPT
                       !.sent = r.b.sent, !.err = r.b.err, !.known = r.b.known,
                       !.bad = bad]
        /\ UNCHANGED <<last_ping, requested_hash, calls, peer_connections,
                       bkmr_blocknumber, bkmr_priorityq, bkmr_calls>>

\* The loop of ping_peers: PING is written to every session in list order;
\* the writes made before the first transport in `bad` raises.
PingPeers(pc, bad) ==
    LET f == {i \in 1..Len(pc) : pc[i] \in bad}
        n == IF f = {} THEN Len(pc) ELSE (CHOOSE i \in f : \A j \in f : i <= j) - 1
    IN  [sent |-> SubSeq(pc, 1, n),
         err |-> IF f = {} THEN "none" ELSE "WriteError"]

\* ping_peers: the time of the ping is recorded before the loop.
ping_peers(bad) ==
    LET r == PingPeers(peer_connections, bad)
    IN  /\ last_ping' = "time"
        /\ last' = [Quiet("ping_peers", 0) EXCEPT !.sent = r.sent,
                       !.err = r.err, !.type = "PING", !.bad = bad]
        /\ UNCHANGED <<hash_msg, requested_hash, calls, peer_connections,
                       bkmr_blocknumber, bkmr_priorityq, bkmr_calls>>

\* ---------------------------------------------------------------- connect_peers
\* peer_conn.transport.getPeer().host: the remote host of a session.  Two
\* sessions can have the same remote host.
HostOf(p) == (p + 1) \div 2

\* The addresses node._peer_addresses can hold, and the lists of them
Addrs == 1..NumPeers
AddressLists == UNION {[1..n -> Addrs] : n \in 0..MaxAddrs}

\* Found that never matches a session
FoundNever(pc, peer_address) == FALSE

\* The search of connect_peers: some session's remote host is peer_address
Found(pc, peer_address) ==
    \E i \in 1..Len(pc) : peer_address = HostOf(pc[i])

\* The loop of connect_peers: reactor.connectTCP(peer_address, 9000, self)
\* for the addresses that are not found, in the order of the list.
ConnectPeers(pc, addrs) ==
    LET dial == SelectSeq(addrs, LAMBDA a : ~Found(pc, a))
    IN  [i \in 1..Len(dial) |-> [host |-> dial[i], port |-> PeerPort]]

\* connect_peers with node._peer_addresses = addrs; the connections it asks
\* for are made by the reactor later (ConnectionMade).
connect_peers(addrs) ==
    /\ last' = [Quiet("connect_peers", 0) EXCEPT !.addrs = addrs,
                   !.attempts = ConnectPeers(peer_connections, addrs)]
    /\ UNCHANGED <<last_ping, hash_msg, requested_hash, calls, peer_connections,
                   bkmr_blocknumber, bkmr_priorityq, bkmr_calls>>

\* ---------------------------------------------------------------- environment
\* The registry and the protocol layer, which drive the factory's state.

\* A connected peer announces a hash that is not fully known: the registry
\* creates the request on the first announce and appends the peer otherwise.
AddPeer(h, p) ==
    /\ h \notin hash_msg
    /\ p \in Range(peer_connections)
    /\ IF h \in DOMAIN requested_hash
       THEN /\ p \notin Range(requested_hash[h].peers_connection_list)
            /\ requested_hash' =
                 [requested_hash EXCEPT ![h].peers_connection_list = Append(@, p)]
       ELSE requested_hash' =
              [x \in DOMAIN requested_hash \cup {h} |->
                 IF x = h
                 THEN [peers_connection_list |-> <<p>>,
                       already_requested_peers |-> <<>>,
                       callLater |-> NoCall]
                 ELSE requested_hash[x]]
    /\ last' = Quiet("env", 0)
    /\ UNCHANGED <<last_ping, hash_msg, calls, peer_connections, bkmr_blocknumber,
                   bkmr_priorityq, bkmr_calls>>

\* The full message arrives and the protocol layer registers it.
FullMessage(h) ==
    /\ h \notin hash_msg
    /\ hash_msg' = Register(hash_msg, h)
    /\ last' = Quiet("env", 0)
    /\ UNCHANGED <<last_ping, requested_hash, calls, peer_connections, bkmr_blocknumber,
                   bkmr_priorityq, bkmr_calls>>

\* deleteRequestState(hash) of the registry
DeleteRequestState(h) ==
    /\ h \in DOMAIN requested_hash
    /\ requested_hash' = DelRequest(requested_hash, h)
    /\ last' = Quiet("env", 0)
    /\ UNCHANGED <<last_ping, hash_msg, calls, peer_connections, bkmr_blocknumber,
                   bkmr_priorityq, bkmr_calls>>

\* The candidate producer pushes (score, hash) into the selector's queue.
PushCandidate(score, h) ==
    /\ Len(bkmr_priorityq) < MaxQueue
    /\ bkmr_priorityq' = Put(bkmr_priorityq, <<score, h>>)
    /\ last' = Quiet("env", 0)
    /\ UNCHANGED <<last_ping, hash_msg, requested_hash, calls, peer_connections,
                   bkmr_blocknumber, bkmr_calls>>

\* The candidate producer moves the tracked block number.
SetBlocknumber(n) ==
    /\ n /= bkmr_blocknumber
    /\ bkmr_blocknumber' = n
    /\ last' = Quiet("env", 0)
    /\ UNCHANGED <<last_ping, hash_msg, requested_hash, calls, peer_connections,
                   bkmr_priorityq, bkmr_calls>>

\* The connection layer reports a new session.
ConnectionMade(p) ==
    /\ p \notin Range(peer_connections)
    /\ peer_connections' = Append(peer_connections, p)
    /\ last' = Quiet("env", 0)
    /\ UNCHANGED <<last_ping, hash_msg, requested_hash, calls, bkmr_blocknumber,
                   bkmr_priorityq, bkmr_calls>>

\* The connection layer reports a lost session.
ConnectionLost(p) ==
    /\ p \in Range(peer_connections)
    /\ peer_connections' = SelectSeq(peer_connections, LAMBDA x : x /= p)
    /\ last' = Quiet("env", 0)
    /\ UNCHANGED <<last_ping, hash_msg, requested_hash, calls, bkmr_blocknumber,
                   bkmr_priorityq, bkmr_calls>>

\* ---------------------------------------------------------------- specification
Init ==
    /\ hash_msg = {}
    /\ requested_hash = <<>>
    /\ calls = <<>>
    /\ peer_connections = <<>>
    /\ bkmr_blocknumber = 0
    /\ bkmr_priorityq = <<>>
    /\ bkmr_calls = 0
    /\ last_ping = "None"
    /\ last = Quiet("init", 0)

Next ==
    \/ \E h \in Hashes, w \in BOOLEAN : RFMDirect(h, w)
    \/ \E w \in BOOLEAN : RFMTimeout(w)
    \/ \E in \in SelectInputs : SelectTimeout(in)
    \/ \E in \in SelectInputs : SelectDirect(in)
    \/ \E h \in Hashes, bad \in SUBSET Peers : broadcast(h, bad)
    \/ \E h \in Hashes, bad \in SUBSET Peers : register_and_broadcast(h, bad)
    \/ \E bad \in SUBSET Peers : ping_peers(bad)
    \/ \E addrs \in AddressLists : connect_peers(addrs)
    \/ \E h \in Hashes, p \in Peers : AddPeer(h, p)
    \/ \E h \in Hashes : FullMessage(h)
    \/ \E h \in Hashes : DeleteRequestState(h)
    \/ \E s \in Scores, h \in Hashes : PushCandidate(s, h)
    \/ \E n \in Blocks : SetBlocknumber(n)
    \/ \E p \in Peers : ConnectionMade(p)
    \/ \E p \in Peers : ConnectionLost(p)

Spec == Init /\ [][Next]_vars

\* ---------------------------------------------------------------- the requester
\* The requester on one hash's lifecycle: the registry, RFM and its retries,
\* with every peer connected.
RFMHashes == {1}

InitRFM ==
    /\ hash_msg = {}
    /\ requested_hash = <<>>
    /\ calls = <<>>
    /\ peer_connections = [i \in 1..NumPeers |-> i]
    /\ bkmr_blocknumber = 0
    /\ bkmr_priorityq = <<>>
    /\ bkmr_calls = 0
    /\ last_ping = "None"
    /\ last = Quiet("init", 0)

NextRFM ==
    \/ \E h \in RFMHashes, w \in BOOLEAN : RFMDirect(h, w)
    \/ \E w \in BOOLEAN : RFMTimeout(w)
    \/ \E h \in RFMHashes, p \in Peers : AddPeer(h, p)
    \/ \E h \in RFMHashes : FullMessage(h)
    \/ \E h \in RFMHashes : DeleteRequestState(h)

SpecRFM == InitRFM /\ [][NextRFM]_vars

\* The step just taken ran RFM on hash h (directly or from a fired retry)
RFMStep(h) == last'.op \in {"RFM", "RFMTimeout"} /\ last'.hash = h

\* The pending retries of hash h
Pending(cl, h) == {i \in 1..Len(cl) : cl[i].hash = h}

\* C1: every RFM step on a hash that is not fully known and has a request
\* writes to at most one peer; that peer is the first peer of the candidate
\* list, in announce order, that was not asked before, it is the candidate
\* that follows the ones already asked (after n asks, number n + 1), and the
\* same step appends it to the asked list; when every candidate was asked
\* nothing is written.
C1_OneAskInAnnounceOrder ==
    [][\A h \in Hashes :
        (RFMStep(h) /\ h \notin hash_msg /\ h \in DOMAIN requested_hash) =>
            LET cand  == requested_hash[h].peers_connection_list
                asked == requested_hash[h].already_requested_peers
                unasked == {i \in 1..Len(cand) : cand[i] \notin Range(asked)}
            IN  /\ Len(last'.sent) <= 1
                /\ unasked = {} => last'.sent = <<>>
                /\ (unasked /= {} /\ last'.err = "none") => Len(last'.sent) = 1
                /\ last'.sent /= <<>> =>
                     LET p == last'.sent[1]
                     IN  /\ p \notin Range(asked)
                         /\ \E i \in unasked :
                              /\ cand[i] = p
                              /\ \A j \in 1..(i - 1) : cand[j] \in Range(asked)
                         /\ cand[Len(asked) + 1] = p
                         /\ h \in DOMAIN requested_hash'
                         /\ requested_hash'[h].already_requested_peers
                              = Append(asked, p)
                         /\ requested_hash'[h].peers_connection_list = cand
       ]_vars

\* C1 witness: a fired retry asked the second of three candidates.
C1_Witness ==
    /\ last.op = "RFMTimeout"
    /\ last.hash \in DOMAIN requested_hash
    /\ Len(requested_hash[last.hash].peers_connection_list) = 3
    /\ Len(requested_hash[last.hash].already_requested_peers) = 2
    /\ last.sent = <<requested_hash[last.hash].peers_connection_list[2]>>

\* C4: when the retry of the last request fires for a hash that is not fully
\* known and whose candidates were all asked, the request is gone afterwards,
\* no retry of the hash is pending, and the step writes and arms nothing; and
\* no RFM step on a hash without a request writes or arms anything.
C4_Exhaustion ==
    [][\A h \in Hashes :
        /\ (/\ last'.op = "RFMTimeout" /\ last'.hash = h
            /\ calls /= <<>>
            /\ h \notin hash_msg
            /\ h \in DOMAIN requested_hash
            /\ Head(calls).id = requested_hash[h].callLater
            /\ Range(requested_hash[h].peers_connection_list)
                 \subseteq Range(requested_hash[h].already_requested_peers))
           => /\ h \notin DOMAIN requested_hash'
              /\ Pending(calls', h) = {}
              /\ last'.sent = <<>>
              /\ ~last'.armed
        /\ (RFMStep(h) /\ h \notin DOMAIN requested_hash)
           => (last'.sent = <<>> /\ ~last'.armed /\ h \notin DOMAIN requested_hash')
       ]_vars

\* C4 witness: a fired retry found every candidate asked and deleted the
\* request.
C4_Witness ==
    /\ last.op = "RFMTimeout"
    /\ last.deleted
    /\ last.hash \notin hash_msg
    /\ last.hash \notin DOMAIN requested_hash
    /\ Pending(calls, last.hash) = {}

\* C5: RFM on a fully known hash writes nothing, arms nothing and raises
\* nothing, and leaves the hash without a request; when the hash had no
\* request already (a second call) the registry is left as it was.
C5_KnownIsNoOp ==
    [][\A h \in Hashes :
        (RFMStep(h) /\ h \in hash_msg) =>
            /\ last'.sent = <<>>
            /\ ~last'.armed
            /\ last'.err = "none"
            /\ h \notin DOMAIN requested_hash'
            /\ \A x \in DOMAIN requested_hash \ {h} :
                 x \in DOMAIN requested_hash' /\ requested_hash'[x] = requested_hash[x]
            /\ hash_msg' = hash_msg
            /\ Pending(calls', h) \subseteq 1..Len(calls)
            /\ h \notin DOMAIN requested_hash => requested_hash' = requested_hash
       ]_vars

\* C5 witness: RFM on a fully known hash deleted its leftover request.
C5_Witness ==
    /\ last.op \in {"RFM", "RFMTimeout"}
    /\ last.hash \in hash_msg
    /\ last.deleted
    /\ last.hash \notin DOMAIN requested_hash

\* ---------------------------------------------------------------- the selector
\* The selector with the requester it drives: candidates for two hashes, of
\* which one has been announced (by one peer) and the other has not.  RFM is
\* entered here only from select_best_bkmr and from the retries it arms.
SelHashes == {1, 2}
SelAnnounced == {1}
SelPeers == {1}

NextSel ==
    \/ \E in \in SelectInputs : SelectTimeout(in)
    \/ \E in \in SelectInputs : SelectDirect(in)
    \/ \E w \in BOOLEAN : RFMTimeout(w)
    \/ \E s \in Scores, h \in SelHashes : PushCandidate(s, h)
    \/ \E n \in Blocks : SetBlocknumber(n)
    \/ \E h \in SelAnnounced, p \in SelPeers : AddPeer(h, p)

SpecSel == InitRFM /\ [][NextSel]_vars

\* The step just taken ran select_best_bkmr on a queue that was not empty,
\* and the chain answered with the score of the tracked block.
SelectScored ==
    /\ last'.op = "select"
    /\ bkmr_priorityq /= <<>>
    /\ last'.oldscore /= 0

\* C8: a selection step whose smallest candidate has a score strictly greater
\* than the chain's score of the tracked block leaves the queue empty, calls
\* RFM for nothing and arms no further step.
C8_Pruning ==
    [][(SelectScored /\ Head(bkmr_priorityq)[1] > last'.oldscore) =>
            /\ bkmr_priorityq' = <<>>
            /\ last'.rfm = 0
            /\ last'.sent = <<>>
            /\ ~last'.armed
            /\ ~last'.resched
            /\ requested_hash' = requested_hash
            /\ calls' = calls
            /\ bkmr_calls' <= bkmr_calls
       ]_vars

\* C8 witness: one step discarded a queue of two candidates.
C8_Witness ==
    /\ last.op = "select"
    /\ last.oldscore /= 0
    /\ last.removed = 2
    /\ last.rfm = 0
    /\ bkmr_priorityq = <<>>

\* C9: a selection step whose smallest candidate has a score less than or
\* equal to the chain's score of the tracked block calls RFM for that
\* candidate's hash with type BK, removes that candidate only, and arms the
\* next step after the fixed delay.
C9_Progress ==
    [][(SelectScored /\ Head(bkmr_priorityq)[1] <= last'.oldscore) =>
            /\ last'.rfm = Head(bkmr_priorityq)[2]
            /\ last'.type = "BK"
            /\ bkmr_priorityq' = Tail(bkmr_priorityq)
            /\ last'.resched
            /\ last'.delay = ReselectDelay
            /\ bkmr_calls' > 0
       ]_vars

\* C10: a selection step that hits an unexpected exception lets nothing
\* escape and leaves a selection step armed.
C10_ScheduleSurvives ==
    [][(last'.op = "select" /\ last'.caught \notin {"none", "Empty"}) =>
            /\ last'.err = "none"
            /\ bkmr_calls' > 0
       ]_vars

\* The selector promoting candidates of one hash that two peers announced:
\* RFM is entered only from select_best_bkmr and from the retries it arms.
RetryHashes == {1}
RetryPeers == {1, 2}

NextRetry ==
    \/ \E in \in SelectInputs : SelectTimeout(in)
    \/ \E in \in SelectInputs : SelectDirect(in)
    \/ \E w \in BOOLEAN : RFMTimeout(w)
    \/ \E s \in Scores, h \in RetryHashes : PushCandidate(s, h)
    \/ \E h \in RetryHashes, p \in RetryPeers : AddPeer(h, p)

SpecRetry == InitRFM /\ [][NextRetry]_vars

\* C2: no hash ever has more than one retry pending.
C2_OneOutstanding ==
    \A h \in Hashes : Cardinality(Pending(calls, h)) <= 1

\* C3: a retry that fires when its hash has no request any more is a no-op:
\* it raises nothing, writes nothing, arms nothing and leaves the registry
\* as it was.
C3_StaleTimerNoOp ==
    [][(last'.op = "RFMTimeout" /\ calls /= <<>>
          /\ Head(calls).hash \notin DOMAIN requested_hash) =>
            /\ last'.err = "none"
            /\ last'.sent = <<>>
            /\ ~last'.armed
            /\ requested_hash' = requested_hash
            /\ hash_msg' = hash_msg
       ]_vars

\* ---------------------------------------------------------------- the broadcaster
\* The broadcaster over the sessions that come and go, for one hash that
\* peers may announce before it is broadcast.
GossipHashes == {1}

\* The transports that raise during one call: none, or one session's.
OneBad == {{}} \cup {{p} : p \in Range(peer_connections)}

NextGossip ==
    \/ \E h \in GossipHashes, bad \in OneBad : broadcast(h, bad)
    \/ \E h \in GossipHashes, bad \in OneBad : register_and_broadcast(h, bad)
    \/ \E bad \in OneBad : ping_peers(bad)
    \/ \E h \in GossipHashes, p \in Peers : AddPeer(h, p)
    \/ \E p \in Peers : ConnectionMade(p)
    \/ \E p \in Peers : ConnectionLost(p)

SpecGossip == Init /\ [][NextGossip]_vars

\* C6: broadcast (also from register_and_broadcast) writes the announce to no
\* peer of the candidate list of the hash's request.
C6_CandidatesSkipped ==
    (last.op \in {"broadcast", "register_and_broadcast"}
       /\ last.hash \in DOMAIN requested_hash)
    => \A i \in 1..Len(last.sent) :
         last.sent[i] \notin
            Range(requested_hash[last.hash].peers_connection_list)

\* C6 witness: a broadcast reached a peer while a connected peer was a
\* candidate of the hash.
C6_Witness ==
    /\ last.op = "broadcast"
    /\ last.hash \in DOMAIN requested_hash
    /\ last.sent /= <<>>
    /\ Range(requested_hash[last.hash].peers_connection_list)
         \cap Range(peer_connections) /= {}

\* C7: in register_and_broadcast the hash is fully known by the time the
\* announce is written to a peer, and is fully known afterwards.
C7_RegisterFirst ==
    last.op = "register_and_broadcast" =>
        /\ last.hash \in hash_msg
        /\ last.sent /= <<>> => last.known

\* C7 witness: register_and_broadcast wrote the announce to two peers.
C7_Witness ==
    /\ last.op = "register_and_broadcast"
    /\ Len(last.sent) = 2
    /\ last.known

\* C11: a transport whose write raises during broadcast (also from
\* register_and_broadcast) or ping_peers does not make the call raise and
\* does not end the loop: every other connected peer that is not in the
\* ignore set of the call, also the ones later in the session list than the
\* failing one, is written to.
C11_WriteFailureContained ==
    last.op \in {"broadcast", "register_and_broadcast", "ping_peers"} =>
        LET ignore == IF last.op = "ping_peers" THEN {}
                      ELSE IgnorePeers(requested_hash, last.hash)
        IN  /\ last.err = "none"
            /\ \A p \in Range(peer_connections) \ (ignore \cup last.bad) :
                  p \in Range(last.sent)

\* ---------------------------------------------------------------- more on the requester
\* C12: an RFM step on a hash that is not fully known and has no request
\* raises to its caller, writes to no peer, arms no retry and leaves the
\* registry as it was.
C12_NoRequestRaises ==
    [][\A h \in Hashes :
        (RFMStep(h) /\ h \notin hash_msg /\ h \notin DOMAIN requested_hash) =>
            /\ last'.err /= "none"
            /\ last'.sent = <<>>
            /\ ~last'.armed
            /\ requested_hash' = requested_hash
            /\ hash_msg' = hash_msg
            /\ Len(calls') <= Len(calls)
       ]_vars

\* C12 witness: RFM was called for a hash that is neither known nor
\* requested (its request was deleted while a retry was pending), and raised
\* KeyError.
C12_Witness ==
    /\ last.op = "RFM"
    /\ last.err = "KeyError"
    /\ last.hash \notin hash_msg
    /\ last.hash \notin DOMAIN requested_hash
    /\ last.sent = <<>>
    /\ calls /= <<>>

\* ---------------------------------------------------------------- the peer registry
\* connect_peers against the sessions the connection layer reports.
NextPeers ==
    \/ \E addrs \in AddressLists : connect_peers(addrs)
    \/ \E p \in Peers : ConnectionMade(p)
    \/ \E p \in Peers : ConnectionLost(p)

SpecPeers == Init /\ [][NextPeers]_vars

\* C13: connect_peers dials no configured address that is the remote host of
\* a current session and dials every configured address that is the remote
\* host of no session, on the peer port; a call made while every configured
\* address has a session (a repeated call on an unchanged, fully connected
\* peer set) dials nothing.
C13_ConnectIdempotent ==
    last.op = "connect_peers" =>
        LET hosts == {HostOf(p) : p \in Range(peer_connections)}
            dialled == {last.attempts[i].host : i \in 1..Len(last.attempts)}
        IN  /\ \A a \in Range(last.addrs) :
                  IF a \in hosts THEN a \notin dialled ELSE a \in dialled
            /\ dialled \subseteq Range(last.addrs)
            /\ \A i \in 1..Len(last.attempts) : last.attempts[i].port = PeerPort
            /\ Range(last.addrs) \subseteq hosts => last.attempts = <<>>

\* C13 witness: connect_peers ran with two configured addresses that both
\* have a session and dialled nothing.
C13_Witness ==
    /\ last.op = "connect_peers"
    /\ Cardinality(Range(last.addrs)) = 2
    /\ Range(last.addrs) \subseteq {HostOf(p) : p \in Range(peer_connections)}
    /\ last.attempts = <<>>

C15_PruneLeavesIdle ==
    [][(SelectScored /\ Head(bkmr_priorityq)[1] > last'.oldscore) =>
            bkmr_calls' = 0
       ]_vars

\* C16: a selection step on a queue that is not empty, taken while the
\* tracked block number is strictly above the chain's height, does not ask
\* for the chain's score and does not discard the queue: whatever the score
\* of the popped candidate, it calls RFM for the popped hash with type BK,
\* removes that candidate only and arms the next step after the fixed delay.
C16_AboveHeightPromotes ==
    [][(last'.op = "select" /\ bkmr_priorityq /= <<>> /\ last'.above) =>
            /\ last'.oldscore = 0
            /\ last'.caught /= "ScoreError"
            /\ last'.rfm = Head(bkmr_priorityq)[2]
            /\ last'.type = "BK"
            /\ bkmr_priorityq' = Tail(bkmr_priorityq)
            /\ last'.resched
            /\ last'.delay = ReselectDelay
            /\ bkmr_calls' > 0
       ]_vars

\* C17: the candidate a selection step pops has the smallest score of the
\* queue; a step that was given the chain's score of the tracked block takes
\* from the queue either its head alone or all of it, and every candidate it
\* takes whose score is less than or equal to that score is the popped one
\* and has RFM called for its hash: a step that discards the queue discards
\* only candidates with a strictly greater score.
C17_PruningSound ==
    [][(last'.op = "select" /\ bkmr_priorityq /= <<>>) =>
          LET q == bkmr_priorityq
          IN  /\ \A i \in 1..Len(q) : Head(q)[1] <= q[i][1]
              /\ last'.oldscore /= 0 =>
                    /\ bkmr_priorityq' \in {Tail(q), <<>>}
                    /\ \A i \in 1..Len(q) :
                          ((i = 1 \/ bkmr_priorityq' = <<>>)
                             /\ q[i][1] <= last'.oldscore)
                          => (i = 1 /\ last'.rfm = q[1][2])
                    /\ last'.rfm = 0 =>
                          \A i \in 1..Len(q) : q[i][1] > last'.oldscore
       ]_vars

\* C17 witness: a step discarded a queue of two candidates, both above the
\* chain's score, while an earlier step's timer was pending.
C17_Witness ==
    /\ last.op = "select"
    /\ last.oldscore = 1
    /\ last.removed = 2
    /\ last.rfm = 0
    /\ last.caught = "none"
    /\ bkmr_priorityq = <<>>
    /\ bkmr_calls = 1

\* C18: in every request the asked list has no peer twice, holds only peers
\* of the candidate list, and lists them in the order of the candidate list:
\* it is a prefix of the candidate list (the registry only appends
\* candidates).
C18_AskedIsPrefix ==
    \A h \in DOMAIN requested_hash :
        LET cand  == requested_hash[h].peers_connection_list
            asked == requested_hash[h].already_requested_peers
        IN  /\ \A i, j \in 1..Len(asked) : asked[i] = asked[j] => i = j
            /\ Range(asked) \subseteq Range(cand)
            /\ Len(asked) <= Len(cand)
            /\ asked = SubSeq(cand, 1, Len(asked))

\* C18 witness: RFM asked the first two of three candidates; the write to the
\* second one raised and the peer stays in the asked list.
C18_Witness ==
    /\ last.op \in {"RFM", "RFMTimeout"}
    /\ last.hash \in DOMAIN requested_hash
    /\ Len(requested_hash[last.hash].peers_connection_list) = 3
    /\ requested_hash[last.hash].already_requested_peers
         = SubSeq(requested_hash[last.hash].peers_connection_list, 1, 2)
    /\ last.err = "WriteError"

\* ---------------------------------------------------------------- the selector draining
\* The recurring selector left alone with a queue of candidates: nothing is
\* pushed any more.  It starts scheduled, with any queue the candidate
\* producer can have filled and hash 1 announced by peer 1.  The reactor
\* fires every pending delayed call, hence the weak fairness of the timers.
DrainQueues ==
    {q \in UNION {[1..n -> Scores \X SelHashes] : n \in 1..MaxQueue} :
        \A i \in 1..(Len(q) - 1) : Before(q[i], q[i + 1]) /\ q[i] /= q[i + 1]}

InitDrain ==
    /\ hash_msg = {}
    /\ requested_hash = <<>>
    /\ calls = <<>>
    /\ peer_connections = [i \in 1..NumPeers |-> i]
    /\ bkmr_blocknumber \in Blocks
    /\ bkmr_priorityq \in DrainQueues
    /\ bkmr_calls = 1
    /\ last_ping = "None"
    /\ last = Quiet("init", 0)

NextDrain ==
    \/ \E in \in SelectInputs : SelectTimeout(in)
    \/ \E w \in BOOLEAN : RFMTimeout(w)
    \/ \E n \in Blocks : SetBlocknumber(n)
    \/ \E h \in SelAnnounced, p \in SelPeers : AddPeer(h, p)

SpecDrain ==
    /\ InitDrain
    /\ [][NextDrain]_vars
    /\ WF_vars(\E in \in SelectInputs : SelectTimeout(in))
    /\ WF_vars(\E w \in BOOLEAN : RFMTimeout(w))

\* C19: with no candidate pushed, every selection step on a queue that is
\* not empty takes at least one candidate from it (one when it arms the next
\* step), a step on an empty queue arms nothing, and so the selector
\* eventually has no timer pending and stays that way.
C19_SelectorDrains ==
    /\ [][last'.op = "select" =>
            IF bkmr_priorityq = <<>>
            THEN ~last'.resched /\ bkmr_calls' <= bkmr_calls
            ELSE /\ Len(bkmr_priorityq') < Len(bkmr_priorityq)
                 /\ last'.resched =>
                       Len(bkmr_priorityq') = Len(bkmr_priorityq) - 1
                 /\ ~last'.resched => bkmr_calls' <= bkmr_calls
         ]_vars
    /\ <>[](bkmr_calls = 0)

\* C19 witness: the selector that started with candidates queued worked the
\* queue off: its last step found the queue empty and no timer is pending.
C19_Witness ==
    /\ last.op = "select"
    /\ last.caught = "Empty"
    /\ bkmr_priorityq = <<>>
    /\ bkmr_calls = 0

\* ---------------------------------------------------------------- the requester on two hashes
\* RFM and its retries on two hashes that two peers announce, while a
\* candidate pushed earlier waits in the selector's queue.
FrameHashes == {1, 2}
FramePeers == {1, 2}

InitFrame ==
    /\ hash_msg = {}
    /\ requested_hash = <<>>
    /\ calls = <<>>
    /\ peer_connections = [i \in 1..NumPeers |-> i]
    /\ bkmr_blocknumber = 0
    /\ bkmr_priorityq = Put(<<>>, <<1, 1>>)
    /\ bkmr_calls = 0
    /\ last_ping = "None"
    /\ last = Quiet("init", 0)

NextFrame ==
    \/ \E h \in FrameHashes, w \in BOOLEAN : RFMDirect(h, w)
    \/ \E w \in BOOLEAN : RFMTimeout(w)
    \/ \E h \in FrameHashes, p \in FramePeers : AddPeer(h, p)
    \/ \E h \in FrameHashes : FullMessage(h)

SpecFrame == InitFrame /\ [][NextFrame]_vars

\* C20: an RFM step on hash h changes nothing but h's own request: the
\* requests of the other hashes exist as before with the same content, the
\* candidate list of h is the same while its request exists, no request of h
\* appears, and the fully known hashes, the sessions, the selector's queue,
\* its timers and the tracked block number are as before; the retries
\* pending for other hashes stay pending.
C20_RFMFrame ==
    [][\A h \in Hashes :
        RFMStep(h) =>
            /\ \A x \in Hashes \ {h} :
                  /\ x \in DOMAIN requested_hash' <=> x \in DOMAIN requested_hash
                  /\ x \in DOMAIN requested_hash =>
                        requested_hash'[x] = requested_hash[x]
            /\ h \in DOMAIN requested_hash' =>
                  /\ h \in DOMAIN requested_hash
                  /\ requested_hash'[h].peers_connection_list
                       = requested_hash[h].peers_connection_list
            /\ hash_msg' = hash_msg
            /\ peer_connections' = peer_connections
            /\ bkmr_priorityq' = bkmr_priorityq
            /\ bkmr_calls' = bkmr_calls
            /\ bkmr_blocknumber' = bkmr_blocknumber
            /\ \A x \in Hashes \ {h} :
                  Cardinality(Pending(calls', x)) = Cardinality(Pending(calls, x))
       ]_vars

\* C20 witness: an RFM step deleted the request of one hash while the other
\* hash had a request with a peer asked and a retry pending.
C20_Witness ==
    /\ last.op \in {"RFM", "RFMTimeout"}
    /\ last.deleted
    /\ \E x \in DOMAIN requested_hash :
          /\ x /= last.hash
          /\ requested_hash[x].already_requested_peers /= <<>>
          /\ Pending(calls, x) /= {}
    /\ bkmr_priorityq /= <<>>

====
